---------------------------- MODULE Spec2Model ----------------------------
(***************************************************************************)
(* A model of the download orchestration of coursera-downloader:           *)
(* CourseraDownloader.download_modules walking the syllabus produced by    *)
(* _iter_modules, _handle_resource deciding each obligation, the           *)
(* ConsecutiveDownloader wrapper with its completion callback, the         *)
(* Downloader.download interrupt clean-up, and utils.is_course_complete.   *)
(***************************************************************************)
EXTENDS Integers, Sequences, FiniteSets, TLC

VARIABLES
    modules,        \* the syllabus handed to download_modules
    args,           \* commandline_args: overwrite, resume, skip_download, filters
    backend,        \* which file downloader get_downloader built
    fs,             \* the files of the mirrored tree: filename -> file
    dirs,           \* the section directories that exist
    now,            \* the clock read by time.time()
    skipped_urls,   \* CourseraDownloader.skipped_urls (None or a list)
    failed_urls,    \* CourseraDownloader.failed_urls
    pc,             \* position of the single thread of control
    mi,             \* index of the Module being walked (1-based)
    si,             \* index of the Section being walked (1-based, 0: none yet)
    oi,             \* index of the next obligation of the Section
    last_update,    \* the watermark local of download_modules
    completed,      \* the verdict local of download_modules
    call,           \* the Downloader call in flight
    run,            \* how many times download_modules has been invoked
    budget,         \* how many invocations the caller still makes
    log,            \* history: the obligations handled by this invocation
    verdicts,       \* history: clock reading at each Module's verdict
    fs_at_call      \* history: the files as they were when this invocation began

vars == <<modules, args, backend, fs, dirs, now, skipped_urls, failed_urls,
          pc, mi, si, oi, last_update, completed, call, run, budget, log,
          verdicts, fs_at_call>>

----------------------------------------------------------------------------
(* Bounds of the model *)

\* how many times the clock may advance during the check
MaxTicks == 1
\* how many invocations of download_modules one behaviour holds
MaxRuns == 2
\* the clock reading when the first invocation begins (seconds)
T0 == 3000000

----------------------------------------------------------------------------
(* utils.py *)

Max(a, b) == IF a >= b THEN a ELSE b

\* total_seconds(td): (td.microseconds + (td.seconds + td.days*24*3600) * 10**6)
\* // 10**6.  With 0 <= microseconds < 10**6 (a timedelta's normal form) the
\* floor division gives td.seconds + td.days*24*3600; it is computed in that
\* form because the product by 10**6 does not fit TLC's 32-bit integers.
total_seconds(td) ==
    (td.microseconds \div 1000000) + (td.seconds + td.days * 24 * 3600)

\* datetime.timedelta(days=30)
timedelta_days_30 == [days |-> 30, seconds |-> 0, microseconds |-> 0]

\* is_course_complete with "30 days or older" read as delta >= max_delta
is_course_complete_at_or_equal(lu, t) ==
    lu >= 0 /\ t - lu >= total_seconds(timedelta_days_30)

\* is_course_complete without the test of the sentinel
is_course_complete_no_sentinel(lu, t) ==
    t - lu > total_seconds(timedelta_days_30)

\* the body of is_course_complete, t the value time.time() returns in it
is_course_complete_at(lu, t) ==
    IF lu >= 0
      THEN LET delta == t - lu
               max_delta == total_seconds(timedelta_days_30)
           IN  IF delta > max_delta THEN TRUE ELSE FALSE
      ELSE FALSE

----------------------------------------------------------------------------
(* utils.py: clean_filename.  A string is the sequence of its characters. *)

RECURSIVE join(_)
\* ''.join(parts)
join(parts) == IF parts = <<>> THEN <<>> ELSE Head(parts) \o join(Tail(parts))

\* s.replace(old, new) for a one-character old
replace(s, old, new) ==
    join([i \in 1..Len(s) |-> IF s[i] = old THEN new ELSE <<s[i]>>])

startswith(s, prefix) ==
    Len(s) >= Len(prefix) /\ SubSeq(s, 1, Len(prefix)) = prefix

RECURSIVE html_unescape(_, _)
\* HTMLParser().unescape(s) for the entities the characters of the model can
\* spell: "&lt;" under every Python; under Python 3 (html5 set), where it is
\* html.unescape, also "&lt" without the semicolon and "&ll;"
html_unescape(s, html5) ==
    IF s = <<>> THEN <<>>
    ELSE IF startswith(s, <<"&", "l", "t", ";">>)
      THEN <<"<">> \o html_unescape(SubSeq(s, 5, Len(s)), html5)
    ELSE IF html5 /\ startswith(s, <<"&", "l", "l", ";">>)
      THEN <<"U+226A">> \o html_unescape(SubSeq(s, 5, Len(s)), html5)
    ELSE IF html5 /\ startswith(s, <<"&", "l", "t">>)
      THEN <<"<">> \o html_unescape(SubSeq(s, 4, Len(s)), html5)
    ELSE <<Head(s)>> \o html_unescape(Tail(s), html5)

\* the hexadecimal digits among the characters of the model
HexDigits == {"2", "B"}

\* the character a %xy escape stands for: %22 and %2B are ASCII, %B2 and %BB
\* are no character on their own
unhex(x, y) ==
    IF x = "2" THEN (IF y = "2" THEN "\"" ELSE "+") ELSE "U+FFFD"

RECURSIVE unquote(_)
\* urllib unquote: every %xy with two hexadecimal digits is decoded, any other
\* '%' is left as it is
unquote(s) ==
    IF s = <<>> THEN <<>>
    ELSE IF Len(s) >= 3 /\ s[1] = "%" /\ s[2] \in HexDigits /\ s[3] \in HexDigits
      THEN <<unhex(s[2], s[3])>> \o unquote(SubSeq(s, 4, Len(s)))
    ELSE <<Head(s)>> \o unquote(Tail(s))

\* urllib unquote_plus: '+' becomes a space, then unquote
unquote_plus(s) == unquote(replace(s, "+", <<" ">>))

RECURSIVE rstrip(_, _)
\* s.rstrip(c)
rstrip(s, c) ==
    IF s # <<>> /\ s[Len(s)] = c THEN rstrip(SubSeq(s, 1, Len(s) - 1), c) ELSE s

RECURSIVE lstrip(_, _)
lstrip(s, c) == IF s # <<>> /\ s[1] = c THEN lstrip(Tail(s), c) ELSE s

\* s.strip(): the only white space of the model is the space
strip(s) == lstrip(rstrip(s, " "), " ")

\* '-_.()' + string.ascii_letters + string.digits, cut to the characters of
\* the model
valid_chars == {"-", "_", ".", "(", ")", "l", "t", "B", "2"}

\* clean_filename(s, minimal_change) under a Python whose HTMLParser knows
\* the HTML 5 entities (html5) or the HTML 4 ones
clean_filename_under(s, minimal_change, html5) ==
    LET s1 == unquote_plus(html_unescape(s, html5))
        s2 == replace(replace(replace(replace(s1, ":", <<"-">>),
                                      "/", <<"-">>), "NUL", <<"-">>),
                      "\n", <<>>)
        s3 == replace(replace(s2, "(", <<>>), ")", <<>>)
        s4 == rstrip(s3, ".")
        s5 == replace(strip(s4), " ", <<"_">>)
    IN  IF minimal_change THEN s2
        ELSE SelectSeq(s5, LAMBDA c : c \in valid_chars)

----------------------------------------------------------------------------
(* downloaders.py: constants and the syllabus walk of _iter_modules *)

IN_MEMORY_MARKER == "#inmemory#"

\* A URL is the sequence of its parts; url.startswith(IN_MEMORY_MARKER)
startswith_marker(url) == Len(url) >= 1 /\ url[1] = IN_MEMORY_MARKER

\* the page content taken without cutting the marker off
page_content_with_marker(url) == url

\* url[len(IN_MEMORY_MARKER):]
page_content(url) == Tail(url)

\* re.search(pattern, name) for the patterns of the model: a pattern is the
\* set of names it matches; None (no filter) is the string-free empty record.
NoFilter == [none |-> TRUE, matches |-> {}]
filtered_out(filter, name) == ~filter.none /\ name \notin filter.matches

\* filtering.find_resources_to_get: the (fmt, url, title) triples of a lecture
\* that pass the format allow-list, the resource filter and the ignored formats
find_resources_to_get(lecture, file_formats, resource_filter, ignored_formats) ==
    SelectSeq(lecture,
              LAMBDA r : /\ (file_formats = {"all"} \/ r.fmt \in file_formats)
                         /\ ~filtered_out(resource_filter, r.title)
                         /\ r.fmt \notin ignored_formats)

\* filtering.skip_format_url: the URL-skip rule, here for the resources of the
\* model: links to a mail address are never fetched, wherever "mailto:"
\* stands in the URL
skip_format_url(fmt, url) == \E i \in DOMAIN url : url[i] = "mailto:"

\* IterModule.name
module_name(index, module) == <<index + 1, module.name>>

\* formatting.format_section(secnum + 1, section, class_name, verbose_dirs)
format_section(num, section) == <<num, section>>

\* the directory numbered by the Section's rank among the Sections that pass
\* section_filter
section_dir_ranked(m, s) ==
    <<module_name(m - 1, modules[m]),
      format_section(
          Cardinality({s2 \in 1..s :
              ~filtered_out(args.section_filter, modules[m].sections[s2].name)}),
          modules[m].sections[s].name)>>

\* IterSection.dir
section_dir(m, s) ==
    <<module_name(m - 1, modules[m]),
      format_section((s - 1) + 1, modules[m].sections[s].name)>>

\* formatting.get_lecture_filename(combined, dir, secnum, lecnum, lecname,
\* title, fmt)
get_lecture_filename(dir, secnum, lecnum, lecname, title, fmt) ==
    [dir |-> dir, sec |-> secnum, lec |-> lecnum, name |-> lecname,
     title |-> IF title = lecname THEN "" ELSE title, fmt |-> fmt]

\* IterModule.sections: the indices of the Sections that pass section_filter
passing_sections(m) ==
    {s \in 1..Len(modules[m].sections) :
        ~filtered_out(args.section_filter, modules[m].sections[s].name)}

\* IterSection.lectures: the indices of the Lectures that pass lecture_filter
passing_lectures(m, s) ==
    {l \in 1..Len(modules[m].sections[s].lectures) :
        ~filtered_out(args.lecture_filter,
                      modules[m].sections[s].lectures[l].name)}

\* IterLecture.resources with IterLecture.filename: the obligations of one
\* Lecture, in order
lecture_obligations(m, s, l) ==
    LET lec == modules[m].sections[s].lectures[l]
        got == find_resources_to_get(lec.resources, args.file_formats,
                                     args.resource_filter, args.ignored_formats)
    IN  [k \in 1..Len(got) |->
            [m |-> m, s |-> s, l |-> l, k |-> k,
             url |-> got[k].url, fmt |-> got[k].fmt,
             filename |-> get_lecture_filename(section_dir(m, s), s - 1, l - 1,
                                               lec.name, got[k].title,
                                               got[k].fmt)]]

RECURSIVE obligations_from(_, _, _)
\* the two inner loops of download_modules (lines 531-532) over one Section:
\* the obligations of its passing Lectures from Lecture l on
obligations_from(m, s, l) ==
    IF l > Len(modules[m].sections[s].lectures) THEN <<>>
    ELSE (IF l \in passing_lectures(m, s) THEN lecture_obligations(m, s, l)
                                           ELSE <<>>)
         \o obligations_from(m, s, l + 1)

section_obligations(m, s) == obligations_from(m, s, 1)

\* the generator yielding the last remaining Section first
next_section_last(m, cur) ==
    {s \in passing_sections(m) :
        s > cur /\ \A s2 \in passing_sections(m) : s2 > cur => s >= s2}

\* IterModule.sections, the generator resumed after Section cur: the Sections
\* it can yield next (one, or none when it is exhausted)
next_section(m, cur) ==
    {s \in passing_sections(m) :
        s > cur /\ \A s2 \in passing_sections(m) : s2 > cur => s <= s2}


----------------------------------------------------------------------------
(* Files, results and exceptions *)

NoFile == [exists |-> FALSE, mtime |-> 0, data |-> <<>>]
\* no Downloader call in flight; of a call: its arguments and, once it was
\* interrupted, what _start_download had done to the file ("none", "partial",
\* "full") and whether os.remove failed
NoCall ==
    [active |-> FALSE, url |-> <<>>, filename |-> <<>>, resume |-> FALSE,
     effect |-> "none", remove_failed |-> FALSE]

file_written(t, data) == [exists |-> TRUE, mtime |-> t, data |-> data]

\* the classes of the exceptions the model raises, each with its bases
Bases(cls) ==
    CASE cls = "ConnectionError"   -> {"ConnectionError", "RequestException",
                                       "OSError", "Exception", "BaseException"}
      [] cls = "OSError"           -> {"OSError", "Exception", "BaseException"}
      [] cls = "KeyboardInterrupt" -> {"KeyboardInterrupt", "BaseException"}
      [] OTHER                     -> {cls}

isinstance(cls, base) == base \in Bases(cls)

Value(v) == [kind |-> "value", v |-> v]
Raised(cls) == [kind |-> "exception", v |-> cls]

\* What one call of _start_download can do: the value it returns or the
\* exception it raises, and what it has done to the target file by then.
\* NativeDownloader: the body streamed to the file (True); 416 in resume mode
\* (True, file untouched); three rejected responses (False, file never
\* opened); session.get raising a requests ConnectionError; an OSError while
\* the opened file is written; the user's interrupt before or during the
\* transfer.
native_outcomes(resume, exists) ==
    LET r == resume /\ exists
    IN  {[result |-> Value("True"), effect |-> "full"],
         [result |-> Value("False"), effect |-> "none"],
         [result |-> Raised("ConnectionError"), effect |-> "none"],
         [result |-> Raised("OSError"), effect |-> "partial"],
         [result |-> Raised("KeyboardInterrupt"), effect |-> "none"],
         [result |-> Raised("KeyboardInterrupt"), effect |-> "partial"]}
        \cup (IF r THEN {[result |-> Value("True"), effect |-> "none"]} ELSE {})

\* ExternalDownloader: subprocess.call returns whatever the tool's exit status
\* and _start_download returns None; a missing binary raises OSError.
external_outcomes ==
    {[result |-> Value("None"), effect |-> "full"],
     [result |-> Value("None"), effect |-> "partial"],
     [result |-> Value("None"), effect |-> "none"],
     [result |-> Raised("OSError"), effect |-> "none"],
     [result |-> Raised("KeyboardInterrupt"), effect |-> "none"],
     [result |-> Raised("KeyboardInterrupt"), effect |-> "partial"]}

start_download_outcomes(b, resume, exists) ==
    IF b = "native" THEN native_outcomes(resume, exists) ELSE external_outcomes

\* the target file after _start_download stopped
transferred(file, effect, t) ==
    CASE effect = "none"    -> file
      [] effect = "partial" -> file_written(t, <<"part">>)
      [] effect = "full"    -> file_written(t, <<"body">>)

\* the clean-up with the test of resume inverted
interrupt_cleanup_resume_inverted(file, resume, remove_fails) ==
    IF resume
      THEN (IF file.exists /\ ~remove_fails THEN NoFile ELSE file)
      ELSE file

\* Downloader.download, the except KeyboardInterrupt clause: the file it leaves
interrupt_cleanup(file, resume, remove_fails) ==
    IF ~resume
      THEN (IF file.exists /\ ~remove_fails THEN NoFile ELSE file)
      ELSE file

\* AbstractDownloader._download_wrapper: is the raised exception caught and
\* returned as the result?
wrapper_catches(cls) == isinstance(cls, "Exception")

\* the completion handler without its second branch
download_completion_handler_requests_only(failed, url, result) ==
    IF result.kind = "exception" /\ isinstance(result.v, "RequestException")
      THEN Append(failed, url)
      ELSE failed

\* CourseraDownloader._download_completion_handler: failed_urls afterwards
download_completion_handler(failed, url, result) ==
    IF result.kind = "exception" /\ isinstance(result.v, "RequestException")
      THEN Append(failed, url)
    ELSE IF result.kind = "exception" /\ isinstance(result.v, "Exception")
      THEN Append(failed, url)
    ELSE failed

\* line 581 with the test of resume inverted
needs_download_resume_inverted(overwrite, exists, resume) ==
    overwrite \/ ~exists \/ ~resume

\* _handle_resource line 581: is the download branch taken?
needs_download(overwrite, exists, resume) == overwrite \/ ~exists \/ resume

\* the already-present branch taking the file's time without the max
present_watermark_no_max(lu, mtime) == mtime

\* the already-present branch keeping the older of the two times
present_watermark_oldest(lu, mtime) ==
    IF lu >= 0 /\ lu < mtime THEN lu ELSE mtime

\* _handle_resource lines 601-602: the watermark of an already-present file
present_watermark(lu, mtime) == Max(lu, mtime)

\* the download branch leaving the watermark as it was passed in
handled_watermark_unchanged(lu, t) == lu

\* _handle_resource line 596: the watermark after the download branch
handled_watermark(lu, t) == t

\* the download branch keeping the watermark when the Downloader call failed
download_watermark_success_only(lu, t, result) ==
    IF result.kind = "exception" THEN lu ELSE handled_watermark(lu, t)

\* _handle_resource lines 593, 596: the watermark after the Downloader call
\* returned result (the result goes to the callback only)
download_watermark(lu, t, result) == handled_watermark(lu, t)

\* the placeholder never created
placeholder_not_created(file, t) == file

\* _handle_resource line 595: open(lecture_filename, 'w').close()
placeholder(file, t) == file_written(t, <<>>)

\* the URL-skip rule applied without looking at skipped_urls
url_skip_applies_untracked(skipped, fmt, url) == skip_format_url(fmt, url)

\* _handle_resource line 589: self.skipped_urls is not None and
\* skip_format_url(fmt, url)
url_skip_applies(skipped, fmt, url) ==
    ~skipped.is_none /\ skip_format_url(fmt, url)

\* the watermark initialised once, before the loop over the Modules
module_start_watermark_carried(prev) == prev

\* download_modules line 526: the watermark a Module starts with
module_start_watermark(prev) == -1

----------------------------------------------------------------------------
(* The inputs: syllabi, configurations and initial file trees *)

Lec(name, resources) == [name |-> name, resources |-> resources]
Sec(name, lectures) == [name |-> name, lectures |-> lectures]
Mod(name, sections) == [name |-> name, sections |-> sections]

\* a remote file, a page kept in memory (the text follows the marker) and a
\* link the URL-skip rule matches
Resources ==
    {[fmt |-> "pdf", url |-> <<"http://x/a.pdf">>, title |-> "slides"],
     [fmt |-> "html", url |-> <<IN_MEMORY_MARKER, "text">>, title |-> "notes"],
     [fmt |-> "txt", url |-> <<"mailto:", "a@x">>, title |-> "contact"]}

\* the resource lists of a Lecture: none, one, and two Resources
NoResource == {<<>>}
OneResource == {<<r>> : r \in Resources}
TwoResources == {<<r1, r2>> : r1 \in Resources, r2 \in Resources}
\* no Resource, or the remote file alone
PlainLists == NoResource \cup {<<r>> : r \in {q \in Resources : q.fmt = "pdf"}}

\* one Module, one Section, one Lecture with up to two Resources
OneLecture ==
    {<<Mod("intro", <<Sec("week-1", <<Lec("lecture-1", rs)>>)>>)>> :
        rs \in NoResource \cup OneResource \cup TwoResources}

\* one Module with two Sections of one Lecture each
TwoSections ==
    {<<Mod("intro", <<Sec("week-1", <<Lec("lecture-1", r1)>>),
                      Sec("week-2", <<Lec("lecture-2", r2)>>)>>)>> :
        r1 \in PlainLists, r2 \in PlainLists}

\* two Modules of one Section and one Lecture each
TwoModules ==
    {<<Mod("intro", <<Sec("week-1", <<Lec("lecture-1", r1)>>)>>),
       Mod("more", <<Sec("week-2", <<Lec("lecture-2", r2)>>)>>)>> :
        r1 \in PlainLists, r2 \in PlainLists}

Syllabi == {<<>>} \cup OneLecture \cup TwoSections \cup TwoModules

\* the file names download_modules can build from a syllabus
AllFiles(syl) ==
    UNION {UNION {UNION {
        {get_lecture_filename(
             <<module_name(m - 1, syl[m]),
               format_section(s, syl[m].sections[s].name)>>,
             s - 1, l - 1, syl[m].sections[s].lectures[l].name,
             syl[m].sections[s].lectures[l].resources[k].title,
             syl[m].sections[s].lectures[l].resources[k].fmt) :
           k \in DOMAIN syl[m].sections[s].lectures[l].resources} :
         l \in DOMAIN syl[m].sections[s].lectures} :
       s \in DOMAIN syl[m].sections} :
     m \in DOMAIN syl}

\* modification times a file found on disk may have: older than 30 days at T0,
\* exactly 30 days old at T0, and later than every clock reading of the check
MTimes(max_delta) == {T0 - max_delta - 1, T0 - max_delta, T0 + MaxTicks + 1}

FileStates ==
    {NoFile} \cup
    {file_written(t, <<"old">>) :
        t \in MTimes(total_seconds(timedelta_days_30))}

Args ==
    {[overwrite |-> o, resume |-> r, skip_download |-> sd,
      file_formats |-> {"all"}, section_filter |-> NoFilter,
      lecture_filter |-> NoFilter, resource_filter |-> NoFilter,
      ignored_formats |-> {}] : o \in BOOLEAN, r \in BOOLEAN, sd \in BOOLEAN}

\* CourseraDownloader.__init__ (lines 516-517) over a syllabus, a
\* configuration and a file tree of the given sets, with a caller that makes n
\* invocations of download_modules
InitFrom(syllabi, configs, files, n) ==
    /\ modules \in syllabi
    /\ args \in configs
    /\ backend \in {"native", "external"}
    /\ fs \in [AllFiles(modules) -> files]
    /\ dirs = {f.dir : f \in {g \in DOMAIN fs : fs[g].exists}}
    /\ now = T0
    /\ \E disable_url_skipping \in BOOLEAN :
          skipped_urls = [is_none |-> disable_url_skipping, list |-> <<>>]
    /\ failed_urls = <<>>
    /\ pc = "idle"
    /\ mi = 0 /\ si = 0 /\ oi = 0
    /\ last_update = -1
    /\ completed = TRUE
    /\ call = NoCall
    /\ run = 0
    /\ budget = n
    /\ log = <<>>
    /\ verdicts = <<>>
    /\ fs_at_call = fs

InitWith(syllabi, n) == InitFrom(syllabi, Args, FileStates, n)

Init == InitWith(Syllabi, 1)

----------------------------------------------------------------------------
(* download_modules *)

\* time.time(): a reading t of the clock, never earlier than the last one
time_time(t) == t \in now..(T0 + MaxTicks)

\* download_modules is called (lines 519-523)
Invoke ==
    /\ pc \in {"idle", "done"}
    /\ budget > 0
    /\ budget' = budget - 1
    /\ run' = run + 1
    /\ completed' = TRUE
    /\ mi' = 1 /\ si' = 0 /\ oi' = 0
    /\ pc' = "modules"
    /\ log' = <<>>
    /\ verdicts' = <<>>
    /\ fs_at_call' = fs
    /\ UNCHANGED <<modules, args, backend, fs, dirs, now, skipped_urls,
                   failed_urls, last_update, call>>

\* for module in modules: last_update = -1 (lines 525-526)
NextModule ==
    /\ pc = "modules"
    /\ mi <= Len(modules)
    /\ last_update' = module_start_watermark(last_update)
    /\ si' = 0
    /\ pc' = "sections"
    /\ UNCHANGED <<modules, args, backend, fs, dirs, now, skipped_urls,
                   failed_urls, mi, oi, completed, call, run, budget, log, verdicts,
                   fs_at_call>>

\* for section in module.sections: mkdir_p(section.dir) (lines 527-529)
NextSection ==
    /\ pc = "sections"
    /\ \E s \in next_section(mi, si) :
          /\ si' = s
          /\ dirs' = dirs \cup {section_dir(mi, s)}
    /\ oi' = 1
    /\ pc' = "resources"
    /\ UNCHANGED <<modules, args, backend, fs, now, skipped_urls, failed_urls,
                   mi, last_update, completed, call, run, budget, log, verdicts,
                   fs_at_call>>

\* the Sections are exhausted: completed = completed and
\* is_course_complete(last_update) (line 540)
EndModule ==
    /\ pc = "sections"
    /\ next_section(mi, si) = {}
    /\ time_time(now')
    /\ completed' = (completed /\ is_course_complete_at(last_update, now'))
    /\ verdicts' = Append(verdicts, now')
    /\ mi' = mi + 1
    /\ pc' = "modules"
    /\ UNCHANGED <<modules, args, backend, fs, dirs, skipped_urls,
                   failed_urls, si, oi, last_update, call, run, budget, log,
                   fs_at_call>>

\* the Lectures and Resources of the Section are exhausted
EndSection ==
    /\ pc = "resources"
    /\ oi > Len(section_obligations(mi, si))
    /\ pc' = "sections"
    /\ UNCHANGED <<modules, args, backend, fs, dirs, now, skipped_urls,
                   failed_urls, mi, si, oi, last_update, completed, call, run, budget,
                   log, verdicts, fs_at_call>>

\* the Modules are exhausted: self._downloader.join(); return completed
\* (lines 542-547)
Return ==
    /\ pc = "modules"
    /\ mi > Len(modules)
    /\ pc' = "done"
    /\ UNCHANGED <<modules, args, backend, fs, dirs, now, skipped_urls,
                   failed_urls, mi, si, oi, last_update, completed, call, run, budget,
                   log, verdicts, fs_at_call>>

----------------------------------------------------------------------------
(* _handle_resource, one action per branch; each runs from the call to the *)
(* return and the assignment of line 534, except the download branch,      *)
(* which stops while the Downloader is at work.                            *)

\* the obligation the two inner loops hand to _handle_resource next
Pending == pc = "resources" /\ oi <= Len(section_obligations(mi, si))
Ob == section_obligations(mi, si)[oi]

\* t is the clock when the obligation was handled, after the watermark
\* _handle_resource returned
LogEntry(ob, branch, result, t, after) ==
    [m |-> ob.m, s |-> ob.s, l |-> ob.l, k |-> ob.k, url |-> ob.url,
     filename |-> ob.filename, branch |-> branch, result |-> result,
     t |-> t, after |-> after]

\* lines 597-602: the file is there and neither overwrite nor resume is set
AlreadyPresent ==
    /\ Pending
    /\ ~needs_download(args.overwrite, fs[Ob.filename].exists, args.resume)
    /\ last_update' = present_watermark(last_update, fs[Ob.filename].mtime)
    /\ oi' = oi + 1
    /\ log' = Append(log, LogEntry(Ob, "present", Value("None"), now,
                                   last_update'))
    /\ UNCHANGED <<modules, args, backend, fs, dirs, now, skipped_urls,
                   failed_urls, pc, mi, si, completed, call, run, budget, verdicts,
                   fs_at_call>>

\* lines 594-596: skip_download, open(lecture_filename, 'w').close()
Touch ==
    /\ Pending
    /\ needs_download(args.overwrite, fs[Ob.filename].exists, args.resume)
    /\ args.skip_download
    /\ time_time(now')
    /\ fs' = [fs EXCEPT ![Ob.filename] = placeholder(@, now')]
    /\ last_update' = handled_watermark(last_update, now')
    /\ oi' = oi + 1
    /\ log' = Append(log, LogEntry(Ob, "touch", Value("None"), now',
                                   last_update'))
    /\ UNCHANGED <<modules, args, backend, dirs, skipped_urls,
                   failed_urls, pc, mi, si, completed, call, run, budget, verdicts,
                   fs_at_call>>

\* lines 583-587, 596: the page kept in memory is written to the file
SaveInMemory ==
    /\ Pending
    /\ needs_download(args.overwrite, fs[Ob.filename].exists, args.resume)
    /\ ~args.skip_download
    /\ startswith_marker(Ob.url)
    /\ time_time(now')
    /\ fs' = [fs EXCEPT ![Ob.filename] = file_written(now', page_content(Ob.url))]
    /\ last_update' = handled_watermark(last_update, now')
    /\ oi' = oi + 1
    /\ log' = Append(log, LogEntry(Ob, "inmemory", Value("None"), now',
                                   last_update'))
    /\ UNCHANGED <<modules, args, backend, dirs, skipped_urls,
                   failed_urls, pc, mi, si, completed, call, run, budget, verdicts,
                   fs_at_call>>

\* lines 589-590, 596: the URL-skip rule
SkipUrl ==
    /\ Pending
    /\ needs_download(args.overwrite, fs[Ob.filename].exists, args.resume)
    /\ ~args.skip_download
    /\ ~startswith_marker(Ob.url)
    /\ url_skip_applies(skipped_urls, Ob.fmt, Ob.url)
    /\ skipped_urls' = [skipped_urls EXCEPT !.list = Append(@, Ob.url)]
    /\ time_time(now')
    /\ last_update' = handled_watermark(last_update, now')
    /\ oi' = oi + 1
    /\ log' = Append(log, LogEntry(Ob, "skipped", Value("None"), now',
                                   last_update'))
    /\ UNCHANGED <<modules, args, backend, fs, dirs, failed_urls, pc, mi,
                   si, completed, call, run, budget, verdicts, fs_at_call>>

\* lines 592-593: self._downloader.download(callback, url, lecture_filename,
\* resume=resume); ConsecutiveDownloader.download enters _download_wrapper
StartDownload ==
    /\ Pending
    /\ needs_download(args.overwrite, fs[Ob.filename].exists, args.resume)
    /\ ~args.skip_download
    /\ ~startswith_marker(Ob.url)
    /\ ~url_skip_applies(skipped_urls, Ob.fmt, Ob.url)
    /\ call' = [active |-> TRUE, url |-> Ob.url, filename |-> Ob.filename,
                resume |-> args.resume, effect |-> "none",
                remove_failed |-> FALSE]
    /\ pc' = "calling"
    /\ UNCHANGED <<modules, args, backend, fs, dirs, now, skipped_urls,
                   failed_urls, mi, si, oi, last_update, completed, run, budget, log,
                   verdicts, fs_at_call>>

\* the file downloader returns or raises an exception _download_wrapper
\* catches (lines 385-389); ConsecutiveDownloader.download calls the callback
\* (lines 398-400); _handle_resource goes on to line 596 and returns
DownloadEnds(o) ==
    /\ time_time(now')
    /\ fs' = [fs EXCEPT ![call.filename] = transferred(@, o.effect, now')]
    /\ failed_urls' = download_completion_handler(failed_urls, call.url,
                                                   o.result)
    /\ last_update' = download_watermark(last_update, now', o.result)
    /\ oi' = oi + 1
    /\ call' = NoCall
    /\ pc' = "resources"
    /\ log' = Append(log, LogEntry(Ob, "download", o.result, now',
                                   last_update'))
    /\ UNCHANGED <<modules, args, backend, dirs, skipped_urls, mi, si,
                   completed, run, budget, verdicts, fs_at_call>>

DownloadReturns ==
    /\ pc = "calling"
    /\ \E o \in start_download_outcomes(backend, call.resume,
                                        fs[call.filename].exists) :
          /\ o.result.kind = "value"
          /\ DownloadEnds(o)

DownloadRaises ==
    /\ pc = "calling"
    /\ \E o \in start_download_outcomes(backend, call.resume,
                                        fs[call.filename].exists) :
          /\ o.result.kind = "exception"
          /\ wrapper_catches(o.result.v)
          /\ DownloadEnds(o)

\* the file downloader raises an exception _download_wrapper does not catch:
\* Downloader.download (lines 50-59) has cleaned up, and the exception unwinds
\* download_modules
DownloadUnwinds ==
    /\ pc = "calling"
    /\ \E o \in start_download_outcomes(backend, call.resume,
                                        fs[call.filename].exists),
          remove_fails \in BOOLEAN :
          /\ o.result.kind = "exception"
          /\ ~wrapper_catches(o.result.v)
          /\ time_time(now')
          /\ fs' = [fs EXCEPT ![call.filename] =
                      IF isinstance(o.result.v, "KeyboardInterrupt")
                        THEN interrupt_cleanup(transferred(@, o.effect, now'),
                                               call.resume, remove_fails)
                        ELSE transferred(@, o.effect, now')]
          /\ call' = [call EXCEPT !.effect = o.effect,
                                  !.remove_failed =
                                      /\ remove_fails
                                      /\ ~call.resume
                                      /\ transferred(fs[call.filename],
                                                     o.effect, now').exists]
          /\ log' = Append(log, LogEntry(Ob, "download", o.result, now',
                                             last_update))
    /\ pc' = "interrupted"
    /\ UNCHANGED <<modules, args, backend, dirs, skipped_urls, failed_urls,
                   mi, si, oi, last_update, completed, run, budget, verdicts,
                   fs_at_call>>

Next ==
    \/ Invoke
    \/ NextModule
    \/ NextSection
    \/ EndModule
    \/ EndSection
    \/ Return
    \/ AlreadyPresent
    \/ Touch
    \/ SaveInMemory
    \/ SkipUrl
    \/ StartDownload
    \/ DownloadReturns
    \/ DownloadRaises
    \/ DownloadUnwinds

Spec == Init /\ [][Next]_vars

\* the same program with a caller that invokes download_modules MaxRuns times,
\* neither overwrite nor resume set
InitTwice ==
    InitWith(OneLecture, MaxRuns) /\ ~args.overwrite /\ ~args.resume

SpecTwice == InitTwice /\ [][Next]_vars

----------------------------------------------------------------------------
(* The same program with filters and ignored formats configured *)

\* a video, and a page kept in memory whose text holds a mail link
FilteredResources ==
    [pdf   |-> [fmt |-> "pdf", url |-> <<"http://x/a.pdf">>, title |-> "slides"],
     mp4   |-> [fmt |-> "mp4", url |-> <<"http://x/a.mp4">>, title |-> "video"],
     page  |-> [fmt |-> "html", url |-> <<IN_MEMORY_MARKER, "mailto:", "a@x">>,
                title |-> "page"],
     mail  |-> [fmt |-> "txt", url |-> <<"mailto:", "a@x">>,
                title |-> "contact"]]

\* the scenario of one Lecture with a pdf and an mp4 Resource; one Lecture
\* with the page and the mail link; two Sections and two Modules with a pdf
\* each
FilteredSyllabi ==
    {<<Mod("intro", <<Sec("week-1",
          <<Lec("lecture-1", <<FilteredResources.pdf,
                               FilteredResources.mp4>>)>>)>>)>>,
     <<Mod("intro", <<Sec("week-1",
          <<Lec("lecture-1", <<FilteredResources.page,
                               FilteredResources.mail>>)>>)>>)>>}
    \cup {syl \in TwoSections \cup TwoModules :
            \A m \in DOMAIN syl : \A s \in DOMAIN syl[m].sections :
               \A l \in DOMAIN syl[m].sections[s].lectures :
                  syl[m].sections[s].lectures[l].resources # <<>>}

Matching(names) == [none |-> FALSE, matches |-> names]

\* what the user configured: nothing, one of the three filters, the ignored
\* formats, or the format allow-list
FilterConfigs ==
    LET none == [file_formats |-> {"all"}, section_filter |-> NoFilter,
                 lecture_filter |-> NoFilter, resource_filter |-> NoFilter,
                 ignored_formats |-> {}]
    IN  {none,
         [none EXCEPT !.section_filter = Matching({"week-1"})],
         [none EXCEPT !.lecture_filter = Matching({"lecture-1"})],
         [none EXCEPT !.resource_filter = Matching({"slides"})],
         [none EXCEPT !.ignored_formats = {"mp4"}],
         [none EXCEPT !.file_formats = {"pdf"}]}

FilteredArgs ==
    {[overwrite |-> o, resume |-> r, skip_download |-> sd,
      file_formats |-> c.file_formats, section_filter |-> c.section_filter,
      lecture_filter |-> c.lecture_filter,
      resource_filter |-> c.resource_filter,
      ignored_formats |-> c.ignored_formats] :
        o \in BOOLEAN, r \in BOOLEAN, sd \in BOOLEAN, c \in FilterConfigs}

\* a file is absent or older than 30 days
OldFileStates ==
    {NoFile,
     file_written(T0 - total_seconds(timedelta_days_30) - 1, <<"old">>)}

InitFiltered == InitFrom(FilteredSyllabi, FilteredArgs, OldFileStates, 1)

SpecFiltered == InitFiltered /\ [][Next]_vars

----------------------------------------------------------------------------
(* The same program with filters that reject an entry and keep a later one *)

\* two Modules; the first has two Sections, the first of them two Lectures;
\* the only Section of the second Module and its only Lecture carry the names
\* of second entries
OrdinalSyllabi ==
    {<<Mod("intro",
           <<Sec("week-1", <<Lec("lecture-1", <<FilteredResources.pdf>>),
                             Lec("lecture-2", <<FilteredResources.page>>)>>),
             Sec("week-2", <<Lec("lecture-1", <<FilteredResources.mail>>)>>)>>),
       Mod("more",
           <<Sec("week-2", <<Lec("lecture-2", <<FilteredResources.pdf>>)>>)>>)>>}

\* no filter, or a section_filter and a lecture_filter matching one name
OrdinalArgs ==
    {[overwrite |-> o, resume |-> FALSE, skip_download |-> sd,
      file_formats |-> {"all"}, section_filter |-> sf,
      lecture_filter |-> lf, resource_filter |-> NoFilter,
      ignored_formats |-> {}] :
        o \in BOOLEAN, sd \in BOOLEAN,
        sf \in {NoFilter, Matching({"week-1"}), Matching({"week-2"})},
        lf \in {NoFilter, Matching({"lecture-1"}), Matching({"lecture-2"})}}

InitOrdinals == InitFrom(OrdinalSyllabi, OrdinalArgs, OldFileStates, 1)

SpecOrdinals == InitOrdinals /\ [][Next]_vars

----------------------------------------------------------------------------
(* is_course_complete on its own: the caller passes a watermark *)

\* how far around the 30-day boundary the watermarks passed in reach (seconds)
OracleSpan == 24

OracleInputs ==
    {-1, 0} \cup
    {T0 - total_seconds(timedelta_days_30) + d : d \in (-OracleSpan)..OracleSpan}

InitOracle ==
    /\ modules = <<>>
    /\ args \in {a \in Args : ~a.overwrite /\ ~a.resume /\ ~a.skip_download}
    /\ backend = "native"
    /\ fs = [f \in {} |-> NoFile]
    /\ dirs = {}
    /\ now = T0
    /\ skipped_urls = [is_none |-> FALSE, list |-> <<>>]
    /\ failed_urls = <<>>
    /\ pc = "oracle"
    /\ mi = 0 /\ si = 0 /\ oi = 0
    /\ last_update \in OracleInputs
    /\ completed = FALSE
    /\ call = NoCall
    /\ run = 0
    /\ budget = 0
    /\ log = <<>>
    /\ verdicts = <<>>
    /\ fs_at_call = fs

\* is_course_complete(last_update) is called and returns
Oracle ==
    /\ pc = "oracle"
    /\ time_time(now')
    /\ completed' = is_course_complete_at(last_update, now')
    /\ pc' = "oracle_done"
    /\ UNCHANGED <<modules, args, backend, fs, dirs, skipped_urls, failed_urls,
                   mi, si, oi, last_update, call, run, budget, log, verdicts,
                   fs_at_call>>

NextOracle == Oracle

SpecOracle == InitOracle /\ [][NextOracle]_vars

----------------------------------------------------------------------------
(* NativeDownloader._start_download byte by byte.  Here backend is the server *)
(* behind the session (the bytes of the remote resource), fs holds the one    *)
(* target file with its bytes, call holds the locals of _start_download and   *)
(* log the requests sent and the waits made.                                   *)

\* how many bytes the remote resource has at most
MaxRemote == 3
\* how many bytes the target file has at most when the download begins
MaxLocal == 3
\* how many bytes one r.raw.read(chunk_sz) returns at most
MaxChunk == 2

TargetFile == "lecture-1.pdf"

\* the remote resource of t bytes: byte i is 10 + i
RemoteBytes(t) == [i \in 1..t |-> 10 + i]

\* what the target file holds when the download begins: nothing, the first
\* bytes of the remote resource (an interrupted download), or other bytes
LocalFiles(remote) ==
    {NoFile}
    \cup {file_written(T0 - 1, SubSeq(remote, 1, n)) :
             n \in 0..(IF Len(remote) < MaxLocal THEN Len(remote) ELSE MaxLocal)}
    \cup {file_written(T0 - 1, [i \in 1..n |-> 0]) : n \in 1..MaxLocal}

\* no Range header
NoRange == -1

\* the statuses with which the server turns a request down
RejectStatuses == {404, 503}

\* session.get(url, stream=True, headers=headers): the responses a server can
\* give to a request with the Range header 'bytes=range-' (or without one):
\* the whole resource, the bytes from the offset on, range not satisfiable, a
\* refusal; and 206 or 416 although no range was asked for
responses(remote, range) ==
    {[status |-> 200, body |-> remote]}
    \cup {[status |-> st, body |-> <<>>] : st \in RejectStatuses}
    \cup (IF range # NoRange /\ range < Len(remote)
           THEN {[status |-> 206,
                  body |-> SubSeq(remote, range + 1, Len(remote))]}
           ELSE {[status |-> 416, body |-> <<>>]})
    \cup (IF range = NoRange
           THEN {[status |-> 206, body |-> remote]}
           ELSE {})

NoResponse == [status |-> 0, body |-> <<>>]

\* lines 286, 289-292: resume = resume and os.path.exists(filename);
\* filesize and the Range header
resume_effective(resume, file) == resume /\ file.exists
range_header(resume, file) == IF resume THEN Len(file.data) ELSE NoRange

\* line 297
max_attempts == 3

\* the wait growing by two seconds per attempt
wait_interval_linear(attempts_count) == 2 * (attempts_count + 1)

\* line 326: wait_interval = 2 ** (attempts_count + 1)
wait_interval(attempts_count) == 2 ^ (attempts_count + 1)

\* resume kept whatever the server answered
resume_after_response_kept(resume, status) == resume

\* lines 333-337: if resume and r.status_code == 200: resume = False
resume_after_response(resume, status) ==
    IF resume /\ status = 200 THEN FALSE ELSE resume

\* the file opened for writing whatever resume is
open_mode_always_wb(resume) == "wb"

\* line 343: f = open(filename, 'ab') if resume else open(filename, 'wb')
open_mode(resume) == IF resume THEN "ab" ELSE "wb"

\* the file right after open(filename, mode)
opened(file, mode, t) ==
    IF mode = "wb" THEN file_written(t, <<>>)
    ELSE IF file.exists THEN file ELSE file_written(t, <<>>)

InitNative ==
    /\ modules = <<>>
    /\ \E r \in BOOLEAN :
          args = [overwrite |-> FALSE, resume |-> r, skip_download |-> FALSE,
                  file_formats |-> {"all"}, section_filter |-> NoFilter,
                  lecture_filter |-> NoFilter, resource_filter |-> NoFilter,
                  ignored_formats |-> {}]
    /\ \E t \in 0..MaxRemote : backend = RemoteBytes(t)
    /\ fs \in [{TargetFile} -> LocalFiles(backend)]
    /\ dirs = {}
    /\ now = T0
    /\ skipped_urls = [is_none |-> FALSE, list |-> <<>>]
    /\ failed_urls = <<>>
    /\ pc = "start"
    /\ mi = 0 /\ si = 0 /\ oi = 0
    /\ last_update = -1
    /\ completed = FALSE
    /\ call = [active |-> FALSE, resume |-> FALSE, range |-> NoRange,
               attempts_count |-> 0, r |-> NoResponse, f |-> "closed",
               result |-> "none"]
    /\ run = 0
    /\ budget = 0
    /\ log = <<>>
    /\ verdicts = <<>>
    /\ fs_at_call = fs

NativeFrame ==
    UNCHANGED <<modules, args, backend, dirs, skipped_urls, failed_urls, mi,
                si, oi, last_update, completed, run, budget, verdicts,
                fs_at_call>>

\* _start_download is called (lines 284-299)
StartNative ==
    /\ pc = "start"
    /\ call' = [call EXCEPT
                  !.active = TRUE,
                  !.resume = resume_effective(args.resume, fs[TargetFile]),
                  !.range = range_header(
                                resume_effective(args.resume, fs[TargetFile]),
                                fs[TargetFile]),
                  !.attempts_count = 0]
    /\ pc' = "loop"
    /\ UNCHANGED <<fs, now, log>>
    /\ NativeFrame

\* while attempts_count < max_attempts: r = self.session.get(...) (lines
\* 300-301)
Get ==
    /\ pc = "loop"
    /\ call.attempts_count < max_attempts
    /\ \E resp \in responses(backend, call.range) :
          call' = [call EXCEPT !.r = resp]
    /\ log' = Append(log, [op |-> "GET", n |-> call.range])
    /\ pc' = "response"
    /\ UNCHANGED <<fs, now>>
    /\ NativeFrame

\* session.get raises a requests ConnectionError
GetRaises ==
    /\ pc = "loop"
    /\ call.attempts_count < max_attempts
    /\ log' = Append(log, [op |-> "GET", n |-> call.range])
    /\ call' = [call EXCEPT !.result = "ConnectionError", !.active = FALSE]
    /\ pc' = "raised"
    /\ UNCHANGED <<fs, now>>
    /\ NativeFrame

\* is the response turned down (the tests of lines 303-316)?
rejected(resume, status) ==
    /\ status # 200
    /\ ~(resume /\ status = 206)
    /\ ~(resume /\ status = 416)

\* lines 316-331: the response is turned down: time.sleep(wait_interval),
\* attempts_count += 1, continue
Reject ==
    /\ pc = "response"
    /\ rejected(call.resume, call.r.status)
    /\ log' = Append(log, [op |-> "sleep",
                            n |-> wait_interval(call.attempts_count)])
    /\ call' = [call EXCEPT !.attempts_count = @ + 1, !.r = NoResponse]
    /\ pc' = "loop"
    /\ UNCHANGED <<fs, now>>
    /\ NativeFrame

\* lines 312-315: 416 in resume mode: r.close(); return True
AlreadyDownloaded ==
    /\ pc = "response"
    /\ call.resume /\ call.r.status = 416
    /\ call' = [call EXCEPT !.result = "True", !.active = FALSE]
    /\ pc' = "returned"
    /\ UNCHANGED <<fs, now, log>>
    /\ NativeFrame

\* lines 333-343: the response is taken: resume is dropped on 200 and the
\* file is opened
Open ==
    /\ pc = "response"
    /\ ~rejected(call.resume, call.r.status)
    /\ ~(call.resume /\ call.r.status = 416)
    /\ LET resume == resume_after_response(call.resume, call.r.status)
       IN  /\ call' = [call EXCEPT !.resume = resume, !.f = open_mode(resume)]
           /\ fs' = [fs EXCEPT ![TargetFile] = opened(@, open_mode(resume), now)]
    /\ pc' = "streaming"
    /\ UNCHANGED <<now, log>>
    /\ NativeFrame

\* lines 344-350: data = r.raw.read(chunk_sz); f.write(data)
ReadChunk ==
    /\ pc = "streaming"
    /\ call.r.body # <<>>
    /\ \E n \in 1..(IF Len(call.r.body) < MaxChunk THEN Len(call.r.body)
                                                    ELSE MaxChunk) :
          /\ fs' = [fs EXCEPT ![TargetFile] =
                      file_written(now, @.data \o SubSeq(call.r.body, 1, n))]
          /\ call' = [call EXCEPT
                        !.r.body = SubSeq(@, n + 1, Len(@))]
    /\ UNCHANGED <<pc, now, log>>
    /\ NativeFrame

\* the connection breaks or the disk fails while the body is streamed
StreamRaises ==
    /\ pc = "streaming"
    /\ call.r.body # <<>>
    /\ call' = [call EXCEPT !.result = "OSError", !.active = FALSE]
    /\ pc' = "raised"
    /\ UNCHANGED <<fs, now, log>>
    /\ NativeFrame

\* lines 346-353: no data is left: f.close(); r.close(); return True
Finish ==
    /\ pc = "streaming"
    /\ call.r.body = <<>>
    /\ call' = [call EXCEPT !.result = "True", !.f = "closed",
                            !.active = FALSE]
    /\ pc' = "returned"
    /\ UNCHANGED <<fs, now, log>>
    /\ NativeFrame

\* lines 355-358: every attempt was turned down: return False
GiveUp ==
    /\ pc = "loop"
    /\ ~(call.attempts_count < max_attempts)
    /\ call.attempts_count = max_attempts
    /\ call' = [call EXCEPT !.result = "False", !.active = FALSE]
    /\ pc' = "returned"
    /\ UNCHANGED <<fs, now, log>>
    /\ NativeFrame

NextNative ==
    \/ StartNative
    \/ Get
    \/ GetRaises
    \/ Reject
    \/ AlreadyDownloaded
    \/ Open
    \/ ReadChunk
    \/ StreamRaises
    \/ Finish
    \/ GiveUp

SpecNative == InitNative /\ [][NextNative]_vars

\* the same with a server that keeps answering and a thread that keeps
\* running: session.get, time.sleep, r.raw.read and open all return, so the
\* one thread of _start_download takes its next step whenever it has one
SpecNativeLive == InitNative /\ [][NextNative]_vars /\ WF_vars(NextNative)

----------------------------------------------------------------------------
(* clean_filename on its own: the caller sanitizes a name, then the result *)

\* how many characters the names handed to clean_filename have at most
MaxNameLen == 4

\* the characters of the names: letters, a digit, and the characters that
\* clean_filename, unquote_plus and HTMLParser.unescape treat specially
NameChars == {"l", "t", "2", "B", ".", " ", "(", ":", "%", "+", "&", ";"}

Names == UNION {[1..n -> NameChars] : n \in 0..MaxNameLen}

\* the name is in modules, the results of clean_filename are collected in log
InitClean ==
    /\ modules \in Names
    /\ args \in [minimal_change : BOOLEAN, html5 : BOOLEAN]
    /\ backend = "native"
    /\ fs = [f \in {} |-> NoFile]
    /\ dirs = {}
    /\ now = T0
    /\ skipped_urls = [is_none |-> FALSE, list |-> <<>>]
    /\ failed_urls = <<>>
    /\ pc = "clean"
    /\ mi = 0 /\ si = 0 /\ oi = 0
    /\ last_update = -1
    /\ completed = FALSE
    /\ call = NoCall
    /\ run = 0
    /\ budget = 0
    /\ log = <<>>
    /\ verdicts = <<>>
    /\ fs_at_call = fs

\* clean_filename(s, minimal_change) as the interpreter at hand runs it
clean_filename(s, minimal_change) ==
    clean_filename_under(s, minimal_change, args.html5)

\* clean_filename is called on the name, then on what it returned
Clean ==
    /\ pc = "clean"
    /\ log' = Append(log, clean_filename(IF log = <<>> THEN modules
                                         ELSE log[Len(log)],
                                         args.minimal_change))
    /\ pc' = IF Len(log) = 1 THEN "cleaned" ELSE "clean"
    /\ UNCHANGED <<modules, args, backend, fs, dirs, now, skipped_urls,
                   failed_urls, mi, si, oi, last_update, completed, call, run,
                   budget, verdicts, fs_at_call>>

NextClean == Clean

SpecClean == InitClean /\ [][NextClean]_vars

----------------------------------------------------------------------------
(* The claims *)

\* the last obligation this invocation has handled
Last == log[Len(log)]

\* this step handles an obligation to the end (or to the interrupt)
Handles == Len(log') = Len(log) + 1

RECURSIVE Flatten(_)
Flatten(ss) == IF Len(ss) = 0 THEN <<>> ELSE Head(ss) \o Flatten(Tail(ss))

\* the obligations of the syllabus in depth-first order (Modules, Sections,
\* Lectures, Resources, each in syllabus order, the filtered ones left out),
\* each named by its position <<module, section, lecture, resource>>
Traversal ==
    Flatten([m \in 1..Len(modules) |->
      Flatten([s \in 1..Len(modules[m].sections) |->
        IF filtered_out(args.section_filter, modules[m].sections[s].name)
          THEN <<>>
          ELSE Flatten([l \in 1..Len(modules[m].sections[s].lectures) |->
            IF filtered_out(args.lecture_filter,
                            modules[m].sections[s].lectures[l].name)
              THEN <<>>
              ELSE [k \in 1..Len(find_resources_to_get(
                                   modules[m].sections[s].lectures[l].resources,
                                   args.file_formats, args.resource_filter,
                                   args.ignored_formats)) |->
                      <<m, s, l, k>>]])])])

Handled == [i \in 1..Len(log) |-> <<log[i].m, log[i].s, log[i].l, log[i].k>>]

\* the Downloader call of log entry e raised an exception that is an Exception
RaisedException(e) ==
    /\ e.branch = "download"
    /\ e.result.kind = "exception"
    /\ isinstance(e.result.v, "Exception")

\* C1: when the target file exists and neither overwrite nor resume is set,
\* handling the obligation calls no Downloader, writes or truncates no file,
\* leaves skipped_urls and failed_urls as they were, whatever skip_download and
\* the URL are, and returns max(previous watermark, the file's mtime).
C1_AlreadyPresentFrame ==
    [][(/\ Pending
        /\ fs[Ob.filename].exists
        /\ ~args.overwrite
        /\ ~args.resume)
       => (/\ Handles
           /\ pc' = "resources"
           /\ ~call'.active
           /\ fs' = fs
           /\ skipped_urls' = skipped_urls
           /\ failed_urls' = failed_urls
           /\ last_update' = Max(last_update, fs[Ob.filename].mtime))]_vars

\* C1 witness: an existing file was handled with skip_download set and a URL
\* carrying the in-memory marker, after an obligation of the same Module had
\* set a later watermark
C1_Witness ==
    /\ Len(log) >= 2
    /\ Last.branch = "present"
    /\ args.skip_download
    /\ startswith_marker(Last.url)
    /\ Last.after > fs[Last.filename].mtime

C2_ExceptionsCaught ==
    /\ [][(pc = "calling" /\ Handles /\ RaisedException(Last'))
          => (/\ failed_urls' = Append(failed_urls, call.url)
              /\ pc' = "resources"
              /\ oi' = oi + 1
              /\ ~call'.active)]_vars
    /\ [](pc = "done" => Handled = Traversal)

\* C2 witness: the first Downloader call raised OSError, the second obligation
\* was downloaded all the same, and download_modules returned
C2_Witness ==
    /\ pc = "done"
    /\ Len(log) = 2
    /\ log[1].branch = "download" /\ log[1].result = Raised("OSError")
    /\ log[2].branch = "download" /\ log[2].result.kind = "value"
    /\ failed_urls = <<log[1].url>>

\* this step finishes an obligation whose Downloader call raised an Exception
\* or whose URL the URL-skip rule recorded in skipped_urls
FailsOrSkips ==
    /\ Handles
    /\ pc' = "resources"
    /\ (RaisedException(Last') \/ Last'.branch = "skipped")

C4_FailedTransfersRecorded ==
    pc = "done" =>
        \A i \in DOMAIN log :
            (/\ log[i].branch = "download"
             /\ (log[i].result.kind = "exception"
                 \/ log[i].result = Value("False")))
            => \E j \in DOMAIN failed_urls : failed_urls[j] = log[i].url

Contribution(e) ==
    IF e.branch = "present" THEN fs[e.filename].mtime ELSE e.after

SetMax(S) == CHOOSE x \in S : \A y \in S : x >= y

PresentOrWritten(e) ==
    \/ e.branch \in {"present", "touch", "inmemory"}
    \/ e.branch = "download" /\ e.result.kind = "value"

\* C6: within a Module the watermark never decreases from one already-present
\* or written obligation to the next, and when the Module ends it is the
\* maximum of the file mtimes and processing times observed for the Module.
C6_WatermarkMonotoneMax ==
    [][/\ (Handles /\ pc' = "resources" /\ PresentOrWritten(Last'))
            => last_update' >= last_update
       /\ (/\ pc = "sections" /\ pc' = "modules"
           /\ \A i \in DOMAIN log : PresentOrWritten(log[i]))
            => last_update =
                 SetMax({-1} \cup {Contribution(log[i]) :
                                     i \in {j \in DOMAIN log : log[j].m = mi}})
      ]_vars

\* the log entries of Module m
ModuleEntries(m) == SelectSeq(log, LAMBDA e : e.m = m)

RECURSIVE FoldWatermark(_, _)
\* the watermark after the obligations es, starting from lu
FoldWatermark(lu, es) ==
    IF Len(es) = 0 THEN lu
    ELSE FoldWatermark(IF Head(es).branch = "present"
                         THEN Max(lu, fs[Head(es).filename].mtime)
                         ELSE Head(es).after,
                       Tail(es))

\* is Module m dormant by its own obligations, its watermark starting at -1?
Dormant(m) ==
    is_course_complete_at(FoldWatermark(-1, ModuleEntries(m)), verdicts[m])

\* C8: download_modules returns the AND over the Modules of is_course_complete
\* of the Module's own final watermark, which starts at -1 and is changed by
\* that Module's obligations only (True for an empty Module list).
C8_VerdictIsConjunction ==
    pc = "done" => completed = (\A m \in 1..Len(modules) : Dormant(m))

\* C8 witness: the first of two Modules is dormant, the second is not, and
\* download_modules returned False
C8_Witness ==
    /\ pc = "done"
    /\ Len(modules) = 2
    /\ Len(ModuleEntries(1)) >= 1 /\ Len(ModuleEntries(2)) >= 1
    /\ Dormant(1) /\ ~Dormant(2)
    /\ ~completed

IsPrefix(a, b) == Len(a) <= Len(b) /\ \A i \in 1..Len(a) : a[i] = b[i]

\* C10: the obligations are handled one at a time in depth-first traversal
\* order: what has been handled is a prefix of the traversal, the Downloader
\* call in flight is for the obligation that follows it, and an obligation is
\* taken up only when no Downloader call is in flight.
C10_SequentialTraversal ==
    /\ [](IsPrefix(Handled, Traversal))
    /\ [](pc = "calling" =>
            /\ call.active
            /\ Len(log) < Len(Traversal)
            /\ Traversal[Len(log) + 1] = <<Ob.m, Ob.s, Ob.l, Ob.k>>
            /\ call.url = Ob.url)
    /\ [](call.active => pc \in {"calling", "interrupted"})
    /\ [][(Pending /\ (Handles \/ pc' = "calling")) => ~call.active]_vars

\* C10 witness: a download of the first Section and then one of the second
\* Section of the same Module were handled, and download_modules returned
C10_Witness ==
    /\ pc = "done"
    /\ Len(log) = 2
    /\ log[1].m = log[2].m
    /\ log[1].s = 1 /\ log[2].s = 2
    /\ log[1].branch = "download" /\ log[2].branch = "download"

\* the Sections of the syllabus, each named by <<module, section>>
AllSections ==
    {<<m, s>> : m \in DOMAIN modules, s \in 1..2} \ 
    {<<m, s>> \in (DOMAIN modules) \X (1..2) : s > Len(modules[m].sections)}

\* the Section passes the section filter and at least one of its Lectures
\* passes the lecture filter
YieldsLecture(m, s) ==
    s \in passing_sections(m) /\ passing_lectures(m, s) # {}

\* C11: download_modules creates a Section's directory at most once per walk
\* and only for a Section that passes the section filter and has a Lecture
\* passing the lecture filter; a Section rejected by the section filter, or
\* one whose Lectures are all rejected, gets no directory and emits no
\* obligation.
C11_DirectoryOnlyForYieldingSection ==
    /\ [][dirs' # dirs =>
            \E ms \in AllSections :
               /\ YieldsLecture(ms[1], ms[2])
               /\ section_dir(ms[1], ms[2]) \notin dirs
               /\ dirs' = dirs \cup {section_dir(ms[1], ms[2])}]_vars
    /\ [](\A ms \in AllSections :
            ~YieldsLecture(ms[1], ms[2]) =>
                \A i \in DOMAIN log : <<log[i].m, log[i].s>> # ms)

\* the Resources of the syllabus whose format is in the ignored-format set
IgnoredResources ==
    UNION {UNION {UNION {
        {r \in {modules[m].sections[s].lectures[l].resources[k] :
                   k \in DOMAIN modules[m].sections[s].lectures[l].resources} :
            r.fmt \in args.ignored_formats} :
         l \in DOMAIN modules[m].sections[s].lectures} :
       s \in DOMAIN modules[m].sections} :
     m \in DOMAIN modules}

InList(list, x) == \E j \in DOMAIN list : list[j] = x

\* C12: a Resource whose format is in the ignored-format set is no obligation
\* and is never passed to the Downloader, whatever resume and overwrite are,
\* and when download_modules returns its URL is in skipped_urls iff
\* disable_url_skipping is false.
C12_IgnoredFormatsSkipped ==
    \A r \in IgnoredResources :
        /\ (call.active => call.url # r.url)
        /\ \A i \in DOMAIN log : log[i].url # r.url
        /\ pc = "done" =>
              (InList(skipped_urls.list, r.url) <=> ~skipped_urls.is_none)

\* the obligation about to be handled is not already-present
NotAlreadyPresent ==
    Pending /\ ~(fs[Ob.filename].exists /\ ~args.overwrite /\ ~args.resume)

\* C13: with skip_download set, an obligation that is not already-present
\* calls no Downloader, writes no in-memory content and appends to neither
\* skipped_urls nor failed_urls; afterwards the target file exists (empty when
\* newly created), no other file changed, and the watermark is the current
\* time.
C13_PlaceholderOnly ==
    [][(NotAlreadyPresent /\ args.skip_download)
       => (/\ Handles
           /\ pc' = "resources"
           /\ ~call'.active
           /\ skipped_urls' = skipped_urls
           /\ failed_urls' = failed_urls
           /\ fs'[Ob.filename].exists
           /\ ~fs[Ob.filename].exists => fs'[Ob.filename].data = <<>>
           /\ startswith_marker(Ob.url)
                => fs'[Ob.filename].data # page_content(Ob.url)
           /\ \A g \in DOMAIN fs : g # Ob.filename => fs'[g] = fs[g]
           /\ last_update' = now')]_vars

\* C13 witness: with skip_download set an obligation whose URL carries the
\* in-memory marker and whose file was absent got an empty file, and the
\* watermark is the clock
C13_Witness ==
    /\ Len(log) >= 1
    /\ args.skip_download
    /\ Last.branch = "touch"
    /\ startswith_marker(Last.url)
    /\ ~fs_at_call[Last.filename].exists
    /\ fs[Last.filename] = file_written(now, <<>>)
    /\ last_update = now
    /\ skipped_urls.list = <<>> /\ failed_urls = <<>>

\* C14: with skip_download unset, an obligation that is not already-present
\* and whose URL starts with '#inmemory#' is never passed to the Downloader and
\* never recorded in skipped_urls, even when the URL-skip rule matches it: the
\* text after the marker becomes the whole content of the target file and the
\* watermark becomes the current time.
C14_InMemoryWritten ==
    /\ [][(/\ NotAlreadyPresent
            /\ ~args.skip_download
            /\ Ob.url[1] = "#inmemory#")
           => (/\ Handles
               /\ pc' = "resources"
               /\ ~call'.active
               /\ skipped_urls' = skipped_urls
               /\ failed_urls' = failed_urls
               /\ fs'[Ob.filename].exists
               /\ fs'[Ob.filename].data = Tail(Ob.url)
               /\ last_update' = now')]_vars
    /\ [](call.active => call.url[1] # "#inmemory#")
    /\ [](\A j \in DOMAIN skipped_urls.list :
             skipped_urls.list[j][1] # "#inmemory#")

\* C14 witness: skip-tracking is enabled, the URL-skip rule matches the URL of
\* a page kept in memory, and the page was written to a file that was absent
C14_Witness ==
    /\ Len(log) >= 1
    /\ Last.branch = "inmemory"
    /\ ~skipped_urls.is_none
    /\ skip_format_url("html", Last.url)
    /\ ~fs_at_call[Last.filename].exists
    /\ fs[Last.filename] = file_written(now, <<"mailto:", "a@x">>)
    /\ skipped_urls.list = <<>>
    /\ last_update = now

\* the obligation about to be handled reaches the URL-skip rule of line 589
ReachesSkipRule ==
    NotAlreadyPresent /\ ~args.skip_download /\ Ob.url[1] # "#inmemory#"

\* does the URL-skip rule match the obligation?
RuleMatches(ob) == \E i \in DOMAIN ob.url : ob.url[i] = "mailto:"

C16_RunStateReset ==
    (run >= 2 /\ pc = "done") =>
        /\ \A j \in DOMAIN failed_urls :
              \E i \in DOMAIN log :
                 log[i].url = failed_urls[j] /\ RaisedException(log[i])
        /\ \A j \in DOMAIN skipped_urls.list :
              \E i \in DOMAIN log :
                 log[i].url = skipped_urls.list[j] /\ log[i].branch = "skipped"

\* C17: filename sanitization is idempotent in both modes: for every string s
\* and either value of minimal_change, clean_filename applied to its own
\* result returns that result.
C17_CleanFilenameIdempotent ==
    pc = "cleaned" => log[2] = log[1]

\* the same for minimal_change = False alone
C17_FullModeIdempotent ==
    (pc = "cleaned" /\ ~args.minimal_change) => log[2] = log[1]

\* the same for minimal_change = True alone
C17_MinimalModeIdempotent ==
    (pc = "cleaned" /\ args.minimal_change) => log[2] = log[1]

\* the bytes the target file held when _start_download was called
LocalBefore == fs_at_call[TargetFile].data

\* resume was asked for, the target file existed with fewer bytes than the
\* remote resource, and the response being handled is a 206
Resumed206 ==
    /\ args.resume
    /\ fs_at_call[TargetFile].exists
    /\ Len(backend) > Len(LocalBefore)
    /\ call.r.status = 206

\* C18: with resume set, a target file of L bytes and a remote resource of
\* T > L bytes served with status 206, the request asks for the bytes from
\* offset L, every write appends (the first L bytes stay as they were, what
\* follows them are the remote bytes from L on), and when the download returns
\* the file holds the L old bytes followed by bytes [L, T): T bytes.
C18_ResumeAppends ==
    Resumed206 =>
        /\ log[Len(log)] = [op |-> "GET", n |-> Len(LocalBefore)]
        /\ Len(fs[TargetFile].data) >= Len(LocalBefore)
        /\ fs[TargetFile].data =
              LocalBefore \o SubSeq(backend, Len(LocalBefore) + 1,
                                    Len(fs[TargetFile].data))
        /\ (pc = "returned" /\ call.result = "True") =>
              /\ fs[TargetFile].data =
                    LocalBefore \o SubSeq(backend, Len(LocalBefore) + 1,
                                          Len(backend))
              /\ Len(fs[TargetFile].data) = Len(backend)

\* C18 witness: a file of one byte that is not the resource's first byte was
\* resumed against a resource of three bytes and the download returned True
C18_Witness ==
    /\ pc = "returned" /\ call.result = "True"
    /\ Resumed206
    /\ LocalBefore = <<0>>
    /\ backend = <<11, 12, 13>>
    /\ fs[TargetFile].data = <<0, 12, 13>>

RECURSIVE FailureFree(_, _, _)
\* the watermark of the run in which no Downloader call raises, over the
\* obligations es handled at the same clock readings: lu is the watermark so
\* far and made the files that run has written so far (file -> mtime, -1 for
\* a file it has not written)
FailureFree(lu, made, es) ==
    IF es = <<>> THEN lu
    ELSE LET e == Head(es)
             exists == fs_at_call[e.filename].exists \/ made[e.filename] >= 0
             mtime == IF made[e.filename] >= 0 THEN made[e.filename]
                      ELSE fs_at_call[e.filename].mtime
             skipped == /\ ~args.skip_download
                        /\ e.url[1] # "#inmemory#"
                        /\ ~skipped_urls.is_none
                        /\ skip_format_url(e.filename.fmt, e.url)
         IN  IF args.overwrite \/ ~exists \/ args.resume
               THEN FailureFree(e.t,
                                IF skipped THEN made
                                ELSE [made EXCEPT ![e.filename] = e.t],
                                Tail(es))
               ELSE FailureFree(Max(lu, mtime), made, Tail(es))

\* the verdict of the failure-free run on the same syllabus, configuration,
\* initial files and clock readings
FailureFreeVerdict ==
    \A m \in 1..Len(modules) :
        LET lu == FailureFree(-1, [f \in DOMAIN fs |-> -1], ModuleEntries(m))
        IN  lu >= 0 /\ verdicts[m] - lu > 30 * 86400

\* C19: the verdict download_modules returns does not depend on which
\* Downloader calls raised exceptions: it is the verdict of the run on the
\* same syllabus, configuration, initial files and clock readings in which
\* no call raises, so any two runs that differ in their failures only return
\* the same verdict.
C19_VerdictIgnoresFailures ==
    pc = "done" => completed = FailureFreeVerdict

\* C19 witness: two obligations name the same file; the first Downloader call
\* raised and left no file, so the second was downloaded where the
\* failure-free run finds the file present; download_modules returned
C19_Witness ==
    /\ pc = "done"
    /\ Len(log) = 2
    /\ log[1].filename = log[2].filename
    /\ RaisedException(log[1])
    /\ log[2].branch = "download" /\ log[2].result.kind = "value"
    /\ ~args.overwrite /\ ~args.resume
    /\ completed = FailureFreeVerdict

\* no obligation of Module m has been handled
Unhandled(m) == \A i \in DOMAIN log : log[i].m # m

\* C20: a Module for which no obligation is handled (its Sections, Lectures
\* or Resources all filtered out) keeps the watermark -1 up to its verdict, is
\* judged not dormant, and makes download_modules return False even when
\* every other Module is dormant.
C20_EmptyModuleNotDormant ==
    /\ [][(pc = "sections" /\ pc' = "modules" /\ Unhandled(mi))
            => (last_update = -1 /\ ~completed')]_vars
    /\ []((pc = "done" /\ \E m \in 1..Len(modules) : Unhandled(m))
            => ~completed)

\* C20 witness: the section filter left nothing of the second Module, the
\* only obligation of the first Module was already-present with a file older
\* than 30 days, and download_modules returned False
C20_Witness ==
    /\ pc = "done"
    /\ Len(modules) = 2
    /\ ~args.section_filter.none
    /\ Len(log) = 1
    /\ log[1].m = 1 /\ log[1].branch = "present"
    /\ verdicts[1] - log[1].after > 30 * 86400
    /\ Unhandled(2)
    /\ ~completed


\* C21: with skip_download set, handling an obligation whose target file
\* already exists (overwrite or resume brought it to the branch) leaves the
\* content of the file as it was.
C21_TouchKeepsContent ==
    [][(NotAlreadyPresent /\ args.skip_download /\ fs[Ob.filename].exists)
       => fs'[Ob.filename].data = fs[Ob.filename].data]_vars


\* the requests sent and the waits made so far
GETs == SelectSeq(log, LAMBDA e : e.op = "GET")
Sleeps == SelectSeq(log, LAMBDA e : e.op = "sleep")

\* resume was asked for and the target file existed when the download began
ResumeMode == args.resume /\ fs_at_call[TargetFile].exists

\* a status other than 200, except 206 and 416 in resume mode
RejectedStatus(status) ==
    status # 200 /\ ~(ResumeMode /\ status \in {206, 416})

\* _start_download is over: it returned or raised
NativeOver == pc \in {"returned", "raised"}

\* C22: _start_download sends at most 3 GET requests and waits 2, 4 and 8
\* seconds after the first, second and third rejected response; a response is
\* rejected exactly when its status is not 200, 206 and 416 in resume mode
\* excepted; when 3 responses were rejected it returns False and the target
\* file was never opened; with a server that keeps answering it terminates.
C22_BoundedRetries ==
    /\ [](/\ Len(GETs) <= 3
          /\ Len(Sleeps) <= Len(GETs)
          /\ \A i \in 1..Len(Sleeps) : Sleeps[i].n = <<2, 4, 8>>[i]
          /\ Len(Sleeps) = 3 =>
                /\ pc \in {"loop", "returned"}
                /\ fs = fs_at_call
                /\ pc = "returned" => call.result = "False"
          /\ (pc = "returned" /\ call.result = "False") =>
                /\ Len(GETs) = 3 /\ Len(Sleeps) = 3
                /\ fs = fs_at_call)
    /\ [][pc = "response" =>
            /\ RejectedStatus(call.r.status) <=>
                  (/\ pc' = "loop"
                   /\ Len(log') = Len(log) + 1
                   /\ log'[Len(log')].op = "sleep")
            /\ RejectedStatus(call.r.status) => fs' = fs]_vars
    /\ <>NativeOver

\* C22 witness: in resume mode three requests for the bytes after the first
\* were rejected, with waits of 2, 4 and 8 seconds, and the download returned
\* False leaving the file as it was
C22_Witness ==
    /\ pc = "returned" /\ call.result = "False"
    /\ ResumeMode /\ Len(LocalBefore) = 1
    /\ log = <<[op |-> "GET", n |-> 1], [op |-> "sleep", n |-> 2],
               [op |-> "GET", n |-> 1], [op |-> "sleep", n |-> 4],
               [op |-> "GET", n |-> 1], [op |-> "sleep", n |-> 8]>>
    /\ fs = fs_at_call


\* the response being handled, or the last one handled, has this status and
\* has been looked at
Answered(status) == call.r.status = status /\ pc # "response"

\* C23: with resume asked for, a full body is never appended to a partial
\* file.  On a 200 the target file is truncated and holds exactly the bytes of
\* the body read so far, from the first one on, and the whole resource when
\* the download returns; on a 416 the file is left as it was and True is
\* returned; when the target file did not exist no request carries a Range
\* header and the file, once created, holds the first bytes of the resource.
C23_ResumeNeverAppendsFullBody ==
    /\ [](args.resume =>
          /\ (ResumeMode /\ Len(LocalBefore) > 0) =>
                \A n \in 1..Len(backend) :
                    fs[TargetFile].data # LocalBefore \o SubSeq(backend, 1, n)
          /\ (ResumeMode /\ Answered(200)) =>
                /\ fs[TargetFile].data \o call.r.body = backend
                /\ (pc = "returned") =>
                      call.result = "True" /\ fs[TargetFile].data = backend
          /\ (ResumeMode /\ call.r.status = 416) =>
                /\ fs = fs_at_call
                /\ pc # "response" =>
                      pc = "returned" /\ call.result = "True"
          /\ ~fs_at_call[TargetFile].exists =>
                /\ \A i \in 1..Len(GETs) : GETs[i].n = NoRange
                /\ fs[TargetFile].exists =>
                      fs[TargetFile].data \o call.r.body = backend
                /\ (pc = "returned" /\ call.result = "True") =>
                      fs[TargetFile].exists /\ fs[TargetFile].data = backend)
    /\ [][(args.resume /\ ResumeMode /\ pc = "response"
             /\ call.r.status = 200)
          => (pc' = "streaming" /\ fs'[TargetFile].data = <<>>)]_vars

\* C23 witness: a file holding the first byte of a resource of three bytes was
\* resumed, the server answered 200 with the whole resource, and the download
\* returned True with the three bytes in the file
C23_Witness ==
    /\ args.resume /\ ResumeMode
    /\ LocalBefore = <<11>>
    /\ backend = <<11, 12, 13>>
    /\ log = <<[op |-> "GET", n |-> 1]>>
    /\ Answered(200)
    /\ pc = "returned" /\ call.result = "True"
    /\ fs[TargetFile].data = <<11, 12, 13>>


\* no file found on disk when download_modules was called has a modification
\* time later than the clock
MTimesNotInFuture ==
    \A f \in DOMAIN fs_at_call :
        fs_at_call[f].exists => fs_at_call[f].mtime <= T0

\* the run took less than 30 days
ShortRun == now - T0 < total_seconds(timedelta_days_30)

\* C24: in a run shorter than 30 days over files whose modification times
\* are not in the future, download_modules returns True only if every
\* obligation was already-present with a file older than 30 days when its
\* Module was judged and every Module had at least one obligation (True for an
\* empty Module list): nothing was written, skipped or downloaded.  With
\* overwrite or resume set it returns True only for an empty Module list.
C24_TrueOnlyIfNothingHandled ==
    (pc = "done" /\ completed /\ ShortRun /\ MTimesNotInFuture) =>
        /\ \A i \in DOMAIN log :
              /\ log[i].branch = "present"
              /\ fs_at_call[log[i].filename].exists
              /\ verdicts[log[i].m] - fs_at_call[log[i].filename].mtime
                    > total_seconds(timedelta_days_30)
        /\ \A m \in 1..Len(modules) : ~Unhandled(m)
        /\ fs = fs_at_call
        /\ skipped_urls.list = <<>> /\ failed_urls = <<>>
        /\ (args.overwrite \/ args.resume) => modules = <<>>

\* C24 witness: two Modules of one obligation each, both files found older
\* than 30 days, and download_modules returned True
C24_Witness ==
    /\ pc = "done" /\ completed
    /\ ShortRun /\ MTimesNotInFuture
    /\ Len(modules) = 2
    /\ Len(log) = 2
    /\ log[1].m = 1 /\ log[2].m = 2
    /\ log[1].branch = "present" /\ log[2].branch = "present"
    /\ ~args.overwrite /\ ~args.resume


\* the directory of the Section at position s of the Module at position m of
\* the syllabus as it was handed in
UnfilteredDir(m, s) ==
    <<<<m, modules[m].name>>, <<s, modules[m].sections[s].name>>>>

\* the directories that existed when download_modules was called
DirsAtCall == {f.dir : f \in {g \in DOMAIN fs_at_call : fs_at_call[g].exists}}

\* some filter removes an entry of the syllabus that stands before position
\* (m, s, l), which remains
RemainsAfterRemoved(m, s, l) ==
    \/ \E s2 \in 1..(s - 1) :
          filtered_out(args.section_filter, modules[m].sections[s2].name)
    \/ \E l2 \in 1..(l - 1) :
          filtered_out(args.lecture_filter,
                       modules[m].sections[s].lectures[l2].name)

\* C25: the ordinals of the names are positions in the unfiltered syllabus.
\* Every obligation handled belongs to a Section and a Lecture the filters let
\* through; its directory carries the Module's position and the Section's
\* position within the Module (both 1-based), the filename builder got the
\* 0-based positions of the Section and the Lecture, and the path is the one
\* the same Resource has when no filter is set; every directory created is
\* the directory of a Section by its unfiltered position.
C25_OrdinalsUnfiltered ==
    /\ \A i \in DOMAIN log :
          LET e == log[i]
              sec == modules[e.m].sections[e.s]
              lec == sec.lectures[e.l]
          IN  /\ ~filtered_out(args.section_filter, sec.name)
              /\ ~filtered_out(args.lecture_filter, lec.name)
              /\ e.filename.dir = UnfilteredDir(e.m, e.s)
              /\ e.filename.sec = e.s - 1
              /\ e.filename.lec = e.l - 1
              /\ e.filename.name = lec.name
              /\ \E k \in DOMAIN lec.resources :
                    /\ lec.resources[k].url = e.url
                    /\ e.filename =
                          get_lecture_filename(UnfilteredDir(e.m, e.s),
                                               e.s - 1, e.l - 1, lec.name,
                                               lec.resources[k].title,
                                               lec.resources[k].fmt)
    /\ \A d \in dirs \ DirsAtCall :
          \E m \in DOMAIN modules : \E s \in DOMAIN modules[m].sections :
             /\ d = UnfilteredDir(m, s)
             /\ ~filtered_out(args.section_filter, modules[m].sections[s].name)

\* C25 witness: the section filter removed the first Section of the first
\* Module; the second Section's directory was created as number 2 of Module
\* number 1, its obligation was handled under the 0-based section index 1, and
\* the obligation of the second Module under directory number 1 of Module
\* number 2
C25_Witness ==
    /\ pc = "done"
    /\ args.section_filter = Matching({"week-2"})
    /\ args.lecture_filter = NoFilter
    /\ Len(log) = 2
    /\ log[1].m = 1 /\ log[1].s = 2 /\ log[1].l = 1
    /\ RemainsAfterRemoved(1, 2, 1)
    /\ log[1].filename.dir = <<<<1, "intro">>, <<2, "week-2">>>>
    /\ log[1].filename.sec = 1 /\ log[1].filename.lec = 0
    /\ <<<<1, "intro">>, <<2, "week-2">>>> \in dirs \ DirsAtCall
    /\ log[2].m = 2
    /\ log[2].filename.dir = <<<<2, "more">>, <<1, "week-2">>>>

============================================================================
